---- MODULE Spec2Model ----
(***************************************************************************)
(* Model of the DynamoDB-backed workflow storage (src/src/storage.ts):     *)
(* the runs, steps, hooks and events stores over one shared table.         *)
(*                                                                         *)
(* Strings that take part in keys (ids, PK, SK) are sequences of character *)
(* codes, so that the table's sort-key order is the byte order DynamoDB    *)
(* uses.  Every attribute value carries its JavaScript type as a tag.      *)
(***************************************************************************)
EXTENDS Integers, Sequences, FiniteSets, TLC

VARIABLES
    table,       \* the DynamoDB table: <<PK, SK>> -> item (attribute name -> value)
    clock,       \* Date.now()
    ulidRuns,    \* how many ids the runs store's monotonicFactory has produced
    ulidSteps,   \* the same for the steps store
    ulidEvents,  \* the same for the events store
    last,        \* the last call and what it returned or threw
    pg,          \* a client paging through a list operation
    calls,       \* how many calls have been made
    reads,       \* per caller, the update it has in flight between its
                 \* GetCommand and its UpdateCommand
    done,        \* per caller, the outcome of the call it made while other
                 \* callers had calls in flight
    closure      \* the closure of a function made by once(fn)

vars == <<table, clock, ulidRuns, ulidSteps, ulidEvents, last, pg, calls, reads,
          done, closure>>

(***************************************************************************)
(* Bounds of the model.                                                    *)
(***************************************************************************)
MaxCalls == 3     \* calls in a behaviour of the entity specifications
MaxRuns == 1      \* runs created in a behaviour of the listing specification
MaxSteps == 1     \* steps with a generated id, there
MaxEvents == 2    \* events, there
MaxPages == 3     \* pages a paging client asks for
MaxListedRuns == 3   \* runs created before a client pages through runs.list
MaxListedEvents == 3 \* events created before a client pages through listByCorrelationId
MaxOnceCalls == 3    \* calls of the function once(fn) returned

(***************************************************************************)
(* JavaScript values.                                                      *)
(***************************************************************************)
Undefined == <<"undefined">>
Null == <<"null">>
Str(s) == <<"string", s>>
Num(n) == <<"number", n>>
Date(ms) == <<"Date", ms>>

\* obj[k] of a JavaScript object: undefined when the key is absent
Attr(obj, k) == IF k \in DOMAIN obj THEN obj[k] ELSE Undefined

\* JavaScript truthiness of the values the handlers test
Truthy(v) ==
    /\ v # Undefined
    /\ v # Null
    /\ v # Num(0)
    /\ v # Str(<<>>)

\* { ...obj, ...sets }
Merge(obj, sets) ==
    [k \in DOMAIN obj \cup DOMAIN sets |->
        IF k \in DOMAIN sets THEN sets[k] ELSE obj[k]]

RECURSIVE LexLess(_, _)
\* a < b for two strings, in byte order
LexLess(a, b) ==
    IF b = <<>> THEN FALSE
    ELSE IF a = <<>> THEN TRUE
    ELSE IF a[1] # b[1] THEN a[1] < b[1]
    ELSE LexLess(Tail(a), Tail(b))

(***************************************************************************)
(* Key scheme and identifiers.                                             *)
(***************************************************************************)
ULID_PREFIX_RUN == <<119, 114, 117, 110, 95>>          \* "wrun_"
ULID_PREFIX_EVT == <<119, 101, 118, 116, 95>>          \* "wevt_"
ULID_PREFIX_STEP == <<119, 115, 116, 101, 112, 95>>    \* "wstep_"

\* the n-th id of a monotonicFactory(): fixed width, increasing in byte order
ulid(n) == <<48 + n>>

runPK(runId) == <<82, 85, 78, 35>> \o runId            \* `RUN#${runId}`
runMetaSK == <<82, 85, 78, 35, 77, 69, 84, 65, 68, 65, 84, 65>>  \* "RUN#METADATA"
\* stepSK with the prefix of eventSK
stepSK_EventPrefix(stepId) == <<69, 86, 69, 78, 84, 35>> \o stepId

stepSK(stepId) == <<83, 84, 69, 80, 35>> \o stepId     \* `STEP#${stepId}`
eventSK(eventId) == <<69, 86, 69, 78, 84, 35>> \o eventId  \* `EVENT#${eventId}`
hookSK(hookId) == <<72, 79, 79, 75, 35>> \o hookId     \* `HOOK#${hookId}`

(***************************************************************************)
(* The result projector.                                                   *)
(***************************************************************************)
TimestampKeys == {"createdAt", "updatedAt", "startedAt", "completedAt"}

compact(obj) ==
    [key \in DOMAIN obj |->
        IF obj[key] # Null
        THEN IF key \in TimestampKeys /\ obj[key][1] = "number"
             THEN Date(obj[key][2])
             ELSE obj[key]
        ELSE Undefined]

(***************************************************************************)
(* The backend commands, as the handlers use them.                         *)
(***************************************************************************)
\* no item: what a command returns as Item or Attributes when there is none
NoItem == <<>>

\* !Item
Missing(Item) == DOMAIN Item = {}

\* GetCommand: the item under Key, or none
GetItem(t, Key) == IF Key \in DOMAIN t THEN t[Key] ELSE NoItem

\* the table with item stored under Key
Stored(t, Key, item) ==
    [k \in DOMAIN t \cup {Key} |-> IF k = Key THEN item ELSE t[k]]

\* PutAccepted without its ConditionExpression: the put overwrites
PutAccepted_Unconditional(t, Key, item) ==
    \A k \in DOMAIN item : item[k] # Undefined

\* PutCommand with ConditionExpression attribute_not_exists(PK) [AND
\* attribute_not_exists(SK)]: the condition is evaluated on the item stored
\* under the new item's key.  The document client is built without
\* removeUndefinedValues, so an item holding an undefined attribute is rejected.
PutAccepted(t, Key, item) ==
    /\ Key \notin DOMAIN t
    /\ \A k \in DOMAIN item : item[k] # Undefined

\* UpdateCommand "SET ..." with ReturnValues ALL_NEW: UpdateItem edits the item
\* under Key, or adds a new item holding the key and the SET attributes when
\* there is none.
Updated(t, Key, sets) ==
    LET old == IF Key \in DOMAIN t
               THEN t[Key]
               ELSE [PK |-> Str(Key[1]), SK |-> Str(Key[2])]
    IN Merge(old, sets)

\* DeleteCommand that removes nothing
Deleted_Nothing(t, Key) == t

\* DeleteCommand: the table without the item under Key
Deleted(t, Key) == [k \in DOMAIN t \ {Key} |-> t[k]]


Min(a, b) == IF a < b THEN a ELSE b

RECURSIVE SortStrings(_, _)
\* the strings of S in byte order, ascending when forward and descending otherwise
SortStrings(S, forward) ==
    IF S = {} THEN <<>>
    ELSE LET m == CHOOSE x \in S : \A y \in S \ {x} :
                      IF forward THEN LexLess(x, y) ELSE LexLess(y, x)
         IN <<m>> \o SortStrings(S \ {m}, forward)

\* the sort-key part of a KeyConditionExpression: none, "SK < :c" or "SK > :c"
KeyCondition(sk, op, c) ==
    CASE op = "<" -> LexLess(sk, c)
      [] op = ">" -> LexLess(c, sk)
      [] OTHER -> TRUE

\* QueryCommand on the table: the items of partition pk whose SK meets the
\* condition, in SK order (ScanIndexForward), at most Limit of them
Query(t, pk, op, c, ScanIndexForward, Limit) ==
    LET sks == {k[2] : k \in {k \in DOMAIN t : k[1] = pk /\ KeyCondition(k[2], op, c)}}
        sorted == SortStrings(sks, ScanIndexForward)
    IN [i \in 1..Min(Limit, Len(sorted)) |-> t[<<pk, sorted[i]>>]]

\* QueryCommand on hookIdIndex (hash = hookId, range = PK) with Limit 1
QueryHookIdIndex(t, hookId) ==
    LET keys == {k \in DOMAIN t : Attr(t[k], "hookId") = Str(hookId)}
        pks == SortStrings({k[1] : k \in keys}, TRUE)
    IN IF keys = {} THEN <<>>
       ELSE <<t[CHOOSE k \in keys : k[1] = pks[1]]>>

\* the items tokenIndex (hash = token) holds for a token; a query with Limit 1
\* returns one of them
TokenIndexItems(t, token) ==
    {t[k] : k \in {k \in DOMAIN t : Attr(t[k], "token") = Str(token)}}

\* the items a secondary index (hash = hashKey, range = createdAt) holds under
\* a hash value: the items of the table that have both key attributes
IndexItems(t, hashKey, value) ==
    {t[k] : k \in {k \in DOMAIN t :
                      /\ Attr(t[k], hashKey) = value
                      /\ Attr(t[k], "createdAt")[1] = "number"}}

\* QueryCommand on such an index: the items whose createdAt meets the
\* condition, in createdAt order, at most Limit of them.  The index does not
\* say in which order it returns items with equal createdAt: every result the
\* backend may give.
QueryIndex(t, hashKey, value, op, c, ScanIndexForward, Limit) ==
    LET items == {i \in IndexItems(t, hashKey, value) :
                     CASE op = "<" -> i.createdAt[2] < c
                       [] op = ">" -> i.createdAt[2] > c
                       [] OTHER -> TRUE}
        n == Cardinality(items)
        orders == {s \in [1..n -> items] :
                      /\ \A i, j \in 1..n : i # j => s[i] # s[j]
                      /\ \A i \in 1..(n - 1) :
                            IF ScanIndexForward
                            THEN s[i].createdAt[2] <= s[i + 1].createdAt[2]
                            ELSE s[i].createdAt[2] >= s[i + 1].createdAt[2]}
    IN {SubSeq(s, 1, Min(Limit, n)) : s \in orders}

(***************************************************************************)
(* What the list handlers make of the Items of a query.                    *)
(***************************************************************************)
\* items.filter(item => item.entityType === type)
OfType(Items, type) == SelectSeq(Items, LAMBDA item : Attr(item, "entityType") = Str(type))

\* values.at(-1)?.[key] ?? null
LastAttr(values, key) ==
    IF Len(values) = 0 \/ Attr(values[Len(values)], key) = Undefined
    THEN Null
    ELSE values[Len(values)][key]

(***************************************************************************)
(* Calls and their outcomes.                                               *)
(***************************************************************************)
\* args holds the call's arguments and, last, whether the backend failed during
\* the call when the handler catches that
NoCall == [op |-> "none", args |-> <<>>, status |-> 0, value |-> Undefined]

\* the call returned value
Returned(op, args, value) ==
    [op |-> op, args |-> args, status |-> 200, value |-> value]

\* the call threw WorkflowAPIError with this status
Threw(op, args, status) ==
    [op |-> op, args |-> args, status |-> status, value |-> Undefined]

NoPaging == [active |-> FALSE]

\* callers that may have a call in flight at the same time
Callers == {1, 2}

\* a caller with no update in flight
Idle == [op |-> "none"]

(***************************************************************************)
(* once (src/unnamed/part_000): the function it returns keeps result.      *)
(***************************************************************************)
\* fn is the sequence of the values its successive invocations return;
\* invoked counts the invocations
once(fn) == [fn |-> fn, result |-> Undefined, invoked |-> 0]

\* the function once(fn) returned is called: if (result === undefined)
\* result = fn(); return result
Memoized ==
    LET invokes == closure.result = Undefined
        result == IF invokes THEN closure.fn[closure.invoked + 1] ELSE closure.result
    IN /\ calls < MaxOnceCalls
       /\ closure' = [closure EXCEPT !.result = result,
                                     !.invoked = IF invokes THEN @ + 1 ELSE @]
       /\ last' = Returned("once", <<>>, result)
       /\ calls' = calls + 1
       /\ UNCHANGED <<table, clock, ulidRuns, ulidSteps, ulidEvents, pg, reads, done>>

(***************************************************************************)
(* Init.                                                                   *)
(***************************************************************************)
Init ==
    /\ table = <<>>
    /\ clock = 1
    /\ ulidRuns = 0
    /\ ulidSteps = 0
    /\ ulidEvents = 0
    /\ last = NoCall
    /\ pg = NoPaging
    /\ calls = 0
    /\ reads = [p \in Callers |-> Idle]
    /\ done = [p \in Callers |-> NoCall]
    /\ closure = once(<<>>)

\* Date.now() at a call: not before the reading of the call before it
Nows == {clock, clock + 1}

(***************************************************************************)
(* Run store.                                                              *)
(***************************************************************************)
\* the run ids the runs store has generated so far
GeneratedRunIds == {ULID_PREFIX_RUN \o ulid(n) : n \in 1..ulidRuns}

\* run ids no create has produced ("x", "y")
UnknownRunIds == {<<120>>, <<121>>}

RunCreateInputs ==
    {[workflowName |-> Str("demo"), input |-> Str("in"), deploymentId |-> Str("d1")],
     [workflowName |-> Str("demo"), input |-> Str("in"), deploymentId |-> Str("d1"),
      executionContext |-> Str("ctx")]}

RunUpdateInputs ==
    {[status |-> Str(s)] : s \in {"running", "completed", "failed"}}
    \cup {[output |-> Str("out")], [unrecognized |-> Str("u")]}

RunKey(id) == <<runPK(id), runMetaSK>>

RunsGet(id) ==
    LET Item == GetItem(table, RunKey(id))
    IN /\ last' = IF Missing(Item)
                  THEN Threw("runs.get", <<id>>, 404)
                  ELSE Returned("runs.get", <<id>>, compact(Item))
       /\ UNCHANGED <<table, clock, ulidRuns, ulidSteps, ulidEvents>>

\* RunsCancelSets without completedAt
RunsCancelSets_NoCompletedAt(now) ==
    [status |-> Str("cancelled"), updatedAt |-> Num(now)]

\* the attributes cancel SETs
RunsCancelSets(now) ==
    [status |-> Str("cancelled"), completedAt |-> Num(now), updatedAt |-> Num(now)]

RunsCancel(id, now) ==
    LET Attributes == Updated(table, RunKey(id), RunsCancelSets(now))
    IN /\ clock' = now
       /\ table' = Stored(table, RunKey(id), Attributes)
       /\ last' = IF Missing(Attributes)
                  THEN Threw("runs.cancel", <<id>>, 404)
                  ELSE Returned("runs.cancel", <<id>>, compact(Attributes))
       /\ UNCHANGED <<ulidRuns, ulidSteps, ulidEvents>>

\* the attributes pause SETs
RunsPauseSets(now) == [status |-> Str("paused"), updatedAt |-> Num(now)]

RunsPause(id, now) ==
    LET Attributes == Updated(table, RunKey(id), RunsPauseSets(now))
    IN /\ clock' = now
       /\ table' = Stored(table, RunKey(id), Attributes)
       /\ last' = IF Missing(Attributes)
                  THEN Threw("runs.pause", <<id>>, 404)
                  ELSE Returned("runs.pause", <<id>>, compact(Attributes))
       /\ UNCHANGED <<ulidRuns, ulidSteps, ulidEvents>>

\* ResumeCondition as attribute_exists(PK): any stored run resumes
ResumeCondition_AnyStatus(t, Key) == Key \in DOMAIN t

\* resume's ConditionExpression "#s = :old", on the item under the key
ResumeCondition(t, Key) ==
    /\ Key \in DOMAIN t
    /\ Attr(t[Key], "status") = Str("paused")

RunsResume(id, now, backendFails) ==
    LET Attributes ==
            Updated(table, RunKey(id),
                    [status |-> Str("running"), updatedAt |-> Num(now)])
    IN /\ clock' = now
       /\ IF ~backendFails /\ ResumeCondition(table, RunKey(id))
          THEN /\ table' = Stored(table, RunKey(id), Attributes)
               /\ last' = Returned("runs.resume", <<id, backendFails>>, compact(Attributes))
          ELSE /\ table' = table
               /\ last' = Threw("runs.resume", <<id, backendFails>>, 404)
       /\ UNCHANGED <<ulidRuns, ulidSteps, ulidEvents>>

RunItem(id, data, now) ==
    [PK |-> Str(runPK(id)),
     SK |-> Str(runMetaSK),
     entityType |-> Str("Run"),
     runId |-> Str(id),
     workflowName |-> data.workflowName,
     input |-> data.input,
     executionContext |-> IF Attr(data, "executionContext") \in {Undefined, Null}
                          THEN Null
                          ELSE data.executionContext,
     deploymentId |-> data.deploymentId,
     status |-> Str("pending"),
     createdAt |-> Num(now),
     updatedAt |-> Num(now)]

RunsCreate(data, now, backendFails) ==
    LET id == ULID_PREFIX_RUN \o ulid(ulidRuns + 1)
        item == RunItem(id, data, now)
    IN /\ clock' = now
       /\ ulidRuns' = ulidRuns + 1
       /\ IF ~backendFails /\ PutAccepted(table, RunKey(id), item)
          THEN /\ table' = Stored(table, RunKey(id), item)
               /\ last' = Returned("runs.create", <<data, backendFails>>, compact(item))
          ELSE /\ table' = table
               /\ last' = Threw("runs.create", <<data, backendFails>>, 409)
       /\ UNCHANGED <<ulidSteps, ulidEvents>>

RunUpdatableKeys ==
    {"status", "output", "error", "errorCode", "deploymentId", "executionContext"}

\* RunsSetsStartedAt without the test of current.startedAt
RunsSetsStartedAt_Always(current, data) == Attr(data, "status") = Str("running")

\* "startedAt logic": whether update also SETs startedAt
RunsSetsStartedAt(current, data) ==
    /\ Attr(data, "status") = Str("running")
    /\ ~Truthy(Attr(current, "startedAt"))

\* RunsUpdateSets that writes the whole item back as it was read, with the
\* fields of data over it
RunsUpdateSets_WholeRecord(current, data, now) ==
    LET copied == [k \in {k \in RunUpdatableKeys : Attr(data, k) # Undefined} |-> data[k]]
    IN Merge(Merge(current, copied), [updatedAt |-> Num(now)])

\* the attributes runs.update SETs, given the item it read
RunsUpdateSets(current, data, now) ==
    LET copied == [k \in {k \in RunUpdatableKeys : Attr(data, k) # Undefined} |-> data[k]]
        started == IF RunsSetsStartedAt(current, data)
                   THEN [startedAt |-> Num(now)]
                   ELSE <<>>
        completed == IF Attr(data, "status")
                          \in {Str("completed"), Str("failed"), Str("cancelled")}
                     THEN [completedAt |-> Num(now)]
                     ELSE <<>>
    IN Merge(Merge(Merge(copied, started), completed), [updatedAt |-> Num(now)])

RunsUpdate(id, data, now) ==
    LET current == GetItem(table, RunKey(id))
        sets == RunsUpdateSets(current, data, now)
        Attributes == Updated(table, RunKey(id), sets)
    IN /\ IF Missing(current)
          THEN /\ table' = table
               /\ clock' = clock
               /\ last' = Threw("runs.update", <<id, data>>, 404)
          ELSE IF DOMAIN sets = {}
          THEN /\ table' = table
               /\ clock' = now
               /\ last' = Returned("runs.update", <<id, data>>, compact(current))
          ELSE /\ table' = Stored(table, RunKey(id), Attributes)
               /\ clock' = now
               /\ last' = Returned("runs.update", <<id, data>>, compact(Attributes))
       /\ UNCHANGED <<ulidRuns, ulidSteps, ulidEvents>>

\* update's GetCommand, by caller p: the caller keeps the item it read until
\* it sends its UpdateCommand
RunsUpdateRead(p, id, data) ==
    LET current == GetItem(table, RunKey(id))
    IN /\ reads[p] = Idle
       /\ IF Missing(current)
          THEN /\ reads' = reads
               /\ last' = Threw("runs.update", <<id, data>>, 404)
          ELSE /\ reads' = [reads EXCEPT ![p] = [op |-> "runs.update", id |-> id,
                                                 data |-> data, current |-> current]]
               /\ last' = last
       /\ UNCHANGED <<table, clock, ulidRuns, ulidSteps, ulidEvents>>

\* update's UpdateCommand, by caller p: its SET parts come from the item the
\* caller read, and are applied to the item stored now
RunsUpdateWrite(p, now) ==
    LET id == reads[p].id
        data == reads[p].data
        current == reads[p].current
        sets == RunsUpdateSets(current, data, now)
        Attributes == Updated(table, RunKey(id), sets)
    IN /\ reads[p].op = "runs.update"
       /\ clock' = now
       /\ IF DOMAIN sets = {}
          THEN /\ table' = table
               /\ last' = Returned("runs.update", <<id, data>>, compact(current))
          ELSE /\ table' = Stored(table, RunKey(id), Attributes)
               /\ last' = Returned("runs.update", <<id, data>>, compact(Attributes))
       /\ reads' = [reads EXCEPT ![p] = Idle]
       /\ UNCHANGED <<ulidRuns, ulidSteps, ulidEvents>>

\* if (workflowName), if (status): the filter is given and not empty
Given(v) == v \notin {Undefined, Null, Str("")}

\* ScanIndexForward: true lists the oldest runs first
RunsScanIndexForward_OldestFirst == TRUE

\* ScanIndexForward of the three queries of runs.list
RunsScanIndexForward == FALSE

\* the Items the query of runs.list may return: by workflowName, else by
\* status, else all runs
RunsListQuery(t, workflowName, status, limit, cursor) ==
    LET op == IF Truthy(cursor) THEN "<" ELSE "none"
        c == IF Truthy(cursor) THEN cursor[2] ELSE 0
    IN IF Given(workflowName)
       THEN QueryIndex(t, "workflowName", workflowName, op, c,
                       RunsScanIndexForward, limit + 1)
       ELSE IF Given(status)
       THEN QueryIndex(t, "status", status, op, c, RunsScanIndexForward, limit + 1)
       ELSE QueryIndex(t, "entityType", Str("Run"), op, c,
                       RunsScanIndexForward, limit + 1)

\* what runs.list returns for the Items of its query
RunsListResult(Items, limit) ==
    LET values == SubSeq(Items, 1, Min(limit, Len(Items)))
    IN [data |-> [i \in 1..Len(values) |-> compact(values[i])],
        hasMore |-> Len(Items) > limit,
        cursor |-> LastAttr(values, "createdAt")]

RunsList(workflowName, status, limit, cursor) ==
    /\ \E Items \in RunsListQuery(table, workflowName, status, limit, cursor) :
          last' = Returned("runs.list", <<workflowName, status, limit, cursor>>,
                           RunsListResult(Items, limit))
    /\ UNCHANGED <<table, clock, ulidRuns, ulidSteps, ulidEvents>>

(***************************************************************************)
(* Step store.                                                             *)
(***************************************************************************)
\* caller-supplied step ids: "a", "ab"
StepIds == {<<97>>, <<97, 98>>}

StepCreateInputs ==
    {[stepName |-> Str("work"), input |-> Str("in")]}
    \cup {[stepName |-> Str("work"), input |-> Str("in"), stepId |-> Str(id)] : id \in StepIds}

StepUpdateInputs ==
    {[status |-> Str(s)] : s \in {"running", "completed"}} \cup {[attempt |-> Num(2)]}

StepKey(runId, stepId) == <<runPK(runId), stepSK(stepId)>>

\* data.stepId ?? `${ULID_PREFIX_STEP}${ulid()}`
StepIdOf(data) ==
    IF Attr(data, "stepId") \in {Undefined, Null}
    THEN ULID_PREFIX_STEP \o ulid(ulidSteps + 1)
    ELSE data.stepId[2]

StepItem(runId, stepId, data, now) ==
    [PK |-> Str(runPK(runId)),
     SK |-> Str(stepSK(stepId)),
     entityType |-> Str("Step"),
     runId |-> Str(runId),
     stepId |-> Str(stepId),
     stepName |-> data.stepName,
     input |-> data.input,
     status |-> Str("pending"),
     attempt |-> Num(1),
     createdAt |-> Num(now),
     updatedAt |-> Num(now)]

StepsCreate(runId, data, now, backendFails) ==
    LET stepId == StepIdOf(data)
        item == StepItem(runId, stepId, data, now)
    IN /\ clock' = now
       /\ ulidSteps' = IF Attr(data, "stepId") \in {Undefined, Null}
                       THEN ulidSteps + 1
                       ELSE ulidSteps
       /\ IF ~backendFails /\ PutAccepted(table, StepKey(runId, stepId), item)
          THEN /\ table' = Stored(table, StepKey(runId, stepId), item)
               /\ last' = Returned("steps.create", <<runId, data, backendFails>>, compact(item))
          ELSE /\ table' = table
               /\ last' = Threw("steps.create", <<runId, data, backendFails>>, 409)
       /\ UNCHANGED <<ulidRuns, ulidEvents>>

StepsGet(runId, stepId) ==
    LET Item == GetItem(table, StepKey(runId, stepId))
    IN /\ last' = IF ~Truthy(Str(runId)) \/ Missing(Item)
                  THEN Threw("steps.get", <<runId, stepId>>, 404)
                  ELSE Returned("steps.get", <<runId, stepId>>, compact(Item))
       /\ UNCHANGED <<table, clock, ulidRuns, ulidSteps, ulidEvents>>

StepUpdatableKeys == {"status", "output", "error", "errorCode", "attempt"}

\* whether steps.update also SETs startedAt
StepsSetsStartedAt(current, data) ==
    /\ Attr(data, "status") = Str("running")
    /\ ~Truthy(Attr(current, "startedAt"))

\* the attributes steps.update SETs, given the item it read
StepsUpdateSets(current, data, now) ==
    LET copied == [k \in {k \in StepUpdatableKeys : Attr(data, k) # Undefined} |-> data[k]]
        started == IF StepsSetsStartedAt(current, data)
                   THEN [startedAt |-> Num(now)]
                   ELSE <<>>
        completed == IF Attr(data, "status") \in {Str("completed"), Str("failed")}
                     THEN [completedAt |-> Num(now)]
                     ELSE <<>>
    IN Merge(Merge(Merge(copied, started), completed), [updatedAt |-> Num(now)])

StepsUpdate(runId, stepId, data, now) ==
    LET Key == StepKey(runId, stepId)
        current == GetItem(table, Key)
        Attributes == Updated(table, Key, StepsUpdateSets(current, data, now))
    IN /\ IF Missing(current)
          THEN /\ table' = table
               /\ clock' = clock
               /\ last' = Threw("steps.update", <<runId, stepId, data>>, 404)
          ELSE /\ table' = Stored(table, Key, Attributes)
               /\ clock' = now
               /\ last' = Returned("steps.update", <<runId, stepId, data>>,
                                   compact(Attributes))
       /\ UNCHANGED <<ulidRuns, ulidSteps, ulidEvents>>

\* create, by caller p, up to its PutCommand: the item is built
StepsCreateBuild(p, runId, data, now) ==
    /\ reads[p] = Idle
    /\ clock' = now
    /\ ulidSteps' = IF Attr(data, "stepId") \in {Undefined, Null}
                    THEN ulidSteps + 1
                    ELSE ulidSteps
    /\ reads' = [reads EXCEPT ![p] = [op |-> "steps.create", runId |-> runId,
                                      data |-> data,
                                      item |-> StepItem(runId, StepIdOf(data), data, now)]]
    /\ UNCHANGED <<table, last, ulidRuns, ulidEvents>>

\* create's PutCommand, by caller p
StepsCreatePut(p, backendFails) ==
    LET runId == reads[p].runId
        data == reads[p].data
        item == reads[p].item
        Key == <<item.PK[2], item.SK[2]>>
    IN /\ reads[p].op = "steps.create"
       /\ IF ~backendFails /\ PutAccepted(table, Key, item)
          THEN /\ table' = Stored(table, Key, item)
               /\ last' = Returned("steps.create", <<runId, data, backendFails>>, compact(item))
          ELSE /\ table' = table
               /\ last' = Threw("steps.create", <<runId, data, backendFails>>, 409)
       /\ reads' = [reads EXCEPT ![p] = Idle]
       /\ UNCHANGED <<clock, ulidRuns, ulidSteps, ulidEvents>>

\* update's GetCommand, by caller p
StepsUpdateRead(p, runId, stepId, data) ==
    LET current == GetItem(table, StepKey(runId, stepId))
    IN /\ reads[p] = Idle
       /\ IF Missing(current)
          THEN /\ reads' = reads
               /\ last' = Threw("steps.update", <<runId, stepId, data>>, 404)
          ELSE /\ reads' = [reads EXCEPT ![p] = [op |-> "steps.update", runId |-> runId,
                                                 stepId |-> stepId, data |-> data,
                                                 current |-> current]]
               /\ last' = last
       /\ UNCHANGED <<table, clock, ulidRuns, ulidSteps, ulidEvents>>

\* update's UpdateCommand, by caller p
StepsUpdateWrite(p, now) ==
    LET runId == reads[p].runId
        stepId == reads[p].stepId
        data == reads[p].data
        Key == StepKey(runId, stepId)
        Attributes == Updated(table, Key, StepsUpdateSets(reads[p].current, data, now))
    IN /\ reads[p].op = "steps.update"
       /\ clock' = now
       /\ table' = Stored(table, Key, Attributes)
       /\ last' = Returned("steps.update", <<runId, stepId, data>>, compact(Attributes))
       /\ reads' = [reads EXCEPT ![p] = Idle]
       /\ UNCHANGED <<ulidRuns, ulidSteps, ulidEvents>>

\* what steps.list returns
StepsListResult(t, runId, limit, cursor) ==
    LET Items == IF Truthy(cursor)
                 THEN Query(t, runPK(runId), "<", stepSK(cursor[2]), FALSE, limit + 1)
                 ELSE Query(t, runPK(runId), "none", <<>>, FALSE, limit + 1)
        steps == OfType(Items, "Step")
        values == SubSeq(steps, 1, Min(limit, Len(steps)))
    IN [data |-> [i \in 1..Len(values) |-> compact(values[i])],
        hasMore |-> Len(Items) > limit,
        cursor |-> LastAttr(values, "stepId")]

StepsList(runId, limit, cursor) ==
    /\ last' = Returned("steps.list", <<runId, limit, cursor>>,
                        StepsListResult(table, runId, limit, cursor))
    /\ UNCHANGED <<table, clock, ulidRuns, ulidSteps, ulidEvents>>

(***************************************************************************)
(* Hook store.                                                             *)
(***************************************************************************)
\* caller-supplied hook ids ("h", "i") and tokens ("t", "u")
HookIds == {<<104>>, <<105>>}
Tokens == {<<116>>, <<117>>}

HookCreateInputs == {[hookId |-> h, token |-> k] : h \in HookIds, k \in Tokens}

HookKey(runId, hookId) == <<runPK(runId), hookSK(hookId)>>

HookItem(runId, data, now) ==
    [PK |-> Str(runPK(runId)),
     SK |-> Str(hookSK(data.hookId)),
     entityType |-> Str("Hook"),
     runId |-> Str(runId),
     hookId |-> Str(data.hookId),
     token |-> Str(data.token),
     ownerId |-> Str(<<>>),
     projectId |-> Str(<<>>),
     environment |-> Str(<<>>),
     createdAt |-> Num(now)]

HooksGet(hookId) ==
    LET Items == QueryHookIdIndex(table, hookId)
    IN /\ last' = IF Len(Items) = 0
                  THEN Threw("hooks.get", <<hookId>>, 404)
                  ELSE Returned("hooks.get", <<hookId>>, compact(Items[1]))
       /\ UNCHANGED <<table, clock, ulidRuns, ulidSteps, ulidEvents>>

HooksCreate(runId, data, now, backendFails) ==
    LET item == HookItem(runId, data, now)
        Key == HookKey(runId, data.hookId)
    IN /\ clock' = now
       /\ IF ~backendFails /\ PutAccepted(table, Key, item)
          THEN /\ table' = Stored(table, Key, item)
               /\ last' = Returned("hooks.create", <<runId, data, backendFails>>, compact(item))
          ELSE /\ table' = table
               /\ last' = Threw("hooks.create", <<runId, data, backendFails>>, 409)
       /\ UNCHANGED <<ulidRuns, ulidSteps, ulidEvents>>

\* what getByToken makes of the query: a failed query is caught and replaced
\* by { Items: [] }
HooksGetByToken(token, backendFails) ==
    /\ \E Items \in IF backendFails \/ TokenIndexItems(table, token) = {}
                    THEN {<<>>}
                    ELSE {<<item>> : item \in TokenIndexItems(table, token)} :
          last' = IF Len(Items) = 0
                  THEN Threw("hooks.getByToken", <<token, backendFails>>, 404)
                  ELSE Returned("hooks.getByToken", <<token, backendFails>>,
                                compact(Items[1]))
    /\ UNCHANGED <<table, clock, ulidRuns, ulidSteps, ulidEvents>>

HooksDispose(hookId) ==
    LET Items == QueryHookIdIndex(table, hookId)
        Key == <<Items[1].PK[2], Items[1].SK[2]>>
        Attributes == GetItem(table, Key)
    IN /\ IF Len(Items) = 0
          THEN /\ table' = table
               /\ last' = Threw("hooks.dispose", <<hookId>>, 404)
          ELSE /\ table' = Deleted(table, Key)
               /\ last' = IF Missing(Attributes)
                          THEN Threw("hooks.dispose", <<hookId>>, 404)
                          ELSE Returned("hooks.dispose", <<hookId>>, compact(Attributes))
       /\ UNCHANGED <<clock, ulidRuns, ulidSteps, ulidEvents>>

\* what hooks.list returns for the hooks of one run
HooksListResult(t, runId, limit, cursor) ==
    LET Items == IF Truthy(cursor)
                 THEN Query(t, runPK(runId), "<", hookSK(cursor[2]), FALSE, limit + 1)
                 ELSE Query(t, runPK(runId), "none", <<>>, FALSE, limit + 1)
        hooks == OfType(Items, "Hook")
        values == SubSeq(hooks, 1, Min(limit, Len(hooks)))
    IN [data |-> [i \in 1..Len(values) |-> compact(values[i])],
        cursor |-> LastAttr(values, "hookId"),
        hasMore |-> Len(Items) > limit]

\* what hooks.list returns for all hooks, given the Items of its query of
\* entityTypeIndex
HooksListAllResult(Items, limit) ==
    LET hooks == OfType(Items, "Hook")
        values == SubSeq(hooks, 1, Min(limit, Len(hooks)))
    IN [data |-> [i \in 1..Len(values) |-> compact(values[i])],
        cursor |-> LastAttr(values, "createdAt"),
        hasMore |-> Len(Items) > limit]

\* runId is the run's id as a string, or undefined
HooksList(runId, limit, cursor) ==
    /\ IF Truthy(runId)
       THEN last' = Returned("hooks.list", <<runId, limit, cursor>>,
                             HooksListResult(table, runId[2], limit, cursor))
       ELSE \E Items \in QueryIndex(table, "entityType", Str("Hook"),
                                    IF Truthy(cursor) THEN "<" ELSE "none",
                                    IF Truthy(cursor) THEN cursor[2] ELSE 0,
                                    FALSE, limit + 1) :
               last' = Returned("hooks.list", <<runId, limit, cursor>>,
                                HooksListAllResult(Items, limit))
    /\ UNCHANGED <<table, clock, ulidRuns, ulidSteps, ulidEvents>>

\* create, by caller p, up to its PutCommand: the item is built
HooksCreateBuild(p, runId, data, now) ==
    /\ reads[p] = Idle
    /\ clock' = now
    /\ reads' = [reads EXCEPT ![p] = [op |-> "hooks.create", runId |-> runId,
                                      data |-> data,
                                      item |-> HookItem(runId, data, now)]]
    /\ UNCHANGED <<table, last, ulidRuns, ulidSteps, ulidEvents>>

\* create's PutCommand, by caller p
HooksCreatePut(p, backendFails) ==
    LET runId == reads[p].runId
        data == reads[p].data
        item == reads[p].item
        Key == <<item.PK[2], item.SK[2]>>
    IN /\ reads[p].op = "hooks.create"
       /\ IF ~backendFails /\ PutAccepted(table, Key, item)
          THEN /\ table' = Stored(table, Key, item)
               /\ last' = Returned("hooks.create", <<runId, data, backendFails>>, compact(item))
          ELSE /\ table' = table
               /\ last' = Threw("hooks.create", <<runId, data, backendFails>>, 409)
       /\ reads' = [reads EXCEPT ![p] = Idle]
       /\ UNCHANGED <<clock, ulidRuns, ulidSteps, ulidEvents>>

\* dispose's QueryCommand, by caller p: the caller keeps the item it found
HooksDisposeLookup(p, hookId) ==
    LET Items == QueryHookIdIndex(table, hookId)
    IN /\ reads[p] = Idle
       /\ IF Len(Items) = 0
          THEN /\ reads' = reads
               /\ last' = Threw("hooks.dispose", <<hookId>>, 404)
          ELSE /\ reads' = [reads EXCEPT ![p] = [op |-> "hooks.dispose",
                                                 hookId |-> hookId, item |-> Items[1]]]
               /\ last' = last
       /\ UNCHANGED <<table, clock, ulidRuns, ulidSteps, ulidEvents>>

\* dispose's DeleteCommand (ReturnValues ALL_OLD), by caller p
HooksDisposeDelete(p) ==
    LET hookId == reads[p].hookId
        Key == <<reads[p].item.PK[2], reads[p].item.SK[2]>>
        Attributes == GetItem(table, Key)
    IN /\ reads[p].op = "hooks.dispose"
       /\ table' = Deleted(table, Key)
       /\ last' = IF Missing(Attributes)
                  THEN Threw("hooks.dispose", <<hookId>>, 404)
                  ELSE Returned("hooks.dispose", <<hookId>>, compact(Attributes))
       /\ reads' = [reads EXCEPT ![p] = Idle]
       /\ UNCHANGED <<clock, ulidRuns, ulidSteps, ulidEvents>>

(***************************************************************************)
(* Event store.                                                            *)
(***************************************************************************)
\* with a payload, and without one
EventCreateInputs ==
    {[eventType |-> Str("step_started"), eventData |-> Str("payload")],
     [eventType |-> Str("run_started")]}

EventKey(runId, eventId) == <<runPK(runId), eventSK(eventId)>>

EventItem(runId, eventId, data, now) ==
    [PK |-> Str(runPK(runId)),
     SK |-> Str(eventSK(eventId)),
     entityType |-> Str("Event"),
     runId |-> Str(runId),
     eventId |-> Str(eventId),
     correlationId |-> IF Attr(data, "correlationId") \in {Undefined, Null}
                       THEN Null
                       ELSE data.correlationId,
     eventType |-> data.eventType,
     eventData |-> IF "eventData" \in DOMAIN data THEN data.eventData ELSE Undefined,
     createdAt |-> Num(now)]

EventsCreate(runId, data, now, backendFails) ==
    LET eventId == ULID_PREFIX_EVT \o ulid(ulidEvents + 1)
        item == EventItem(runId, eventId, data, now)
        Key == EventKey(runId, eventId)
    IN /\ clock' = now
       /\ ulidEvents' = ulidEvents + 1
       /\ IF ~backendFails /\ PutAccepted(table, Key, item)
          THEN /\ table' = Stored(table, Key, item)
               /\ last' = Returned("events.create", <<runId, data, backendFails>>, compact(item))
          ELSE /\ table' = table
               /\ last' = Threw("events.create", <<runId, data, backendFails>>, 409)
       /\ UNCHANGED <<ulidRuns, ulidSteps>>

\* what events.list returns
EventsListResult(t, runId, limit, sortOrder, cursor) ==
    LET Items == IF Truthy(cursor)
                 THEN Query(t, runPK(runId), IF sortOrder = "desc" THEN "<" ELSE ">",
                            eventSK(cursor[2]), sortOrder = "asc", limit + 1)
                 ELSE Query(t, runPK(runId), "none", <<>>, sortOrder = "asc", limit + 1)
        events == OfType(Items, "Event")
        values == SubSeq(events, 1, Min(limit, Len(events)))
    IN [data |-> [i \in 1..Len(values) |-> compact(values[i])],
        cursor |-> LastAttr(values, "eventId"),
        hasMore |-> Len(Items) > limit]

EventsList(runId, limit, sortOrder, cursor) ==
    /\ last' = Returned("events.list", <<runId, limit, sortOrder, cursor>>,
                        EventsListResult(table, runId, limit, sortOrder, cursor))
    /\ UNCHANGED <<table, clock, ulidRuns, ulidSteps, ulidEvents>>

\* the Items the query of listByCorrelationId may return
EventsByCorrelationQuery(t, correlationId, limit, sortOrder, cursor) ==
    LET op == IF Truthy(cursor)
              THEN IF sortOrder = "desc" THEN "<" ELSE ">"
              ELSE "none"
        c == IF Truthy(cursor) THEN cursor[2] ELSE 0
    IN QueryIndex(t, "correlationId", Str(correlationId), op, c,
                  sortOrder = "asc", limit + 1)

\* what listByCorrelationId returns for the Items of its query
EventsByCorrelationResult(Items, limit) ==
    LET events == OfType(Items, "Event")
        values == SubSeq(events, 1, Min(limit, Len(events)))
    IN [data |-> [i \in 1..Len(values) |-> compact(values[i])],
        cursor |-> LastAttr(values, "createdAt"),
        hasMore |-> Len(Items) > limit]

EventsListByCorrelationId(correlationId, limit, sortOrder, cursor) ==
    /\ \E Items \in EventsByCorrelationQuery(table, correlationId, limit, sortOrder, cursor) :
          last' = Returned("events.listByCorrelationId",
                           <<correlationId, limit, sortOrder, cursor>>,
                           EventsByCorrelationResult(Items, limit))
    /\ UNCHANGED <<table, clock, ulidRuns, ulidSteps, ulidEvents>>

(***************************************************************************)
(* Specifications.                                                         *)
(***************************************************************************)
\* a call of the entity specifications: one more call, no paging client
Call(A) ==
    /\ calls < MaxCalls
    /\ A
    /\ calls' = calls + 1
    /\ pg' = pg
    /\ UNCHANGED <<reads, done, closure>>

\* the run ids callers name: those generated so far and one unknown one ("x")
CallerRunIds == GeneratedRunIds \cup {<<120>>}

RunsCreateCall ==
    \E data \in RunCreateInputs, now \in Nows, f \in BOOLEAN :
        Call(RunsCreate(data, now, f))
RunsGetCall == \E id \in CallerRunIds : Call(RunsGet(id))
RunsCancelCall == \E id \in CallerRunIds, now \in Nows : Call(RunsCancel(id, now))
RunsPauseCall == \E id \in CallerRunIds, now \in Nows : Call(RunsPause(id, now))
RunsResumeCall ==
    \E id \in CallerRunIds, now \in Nows, f \in BOOLEAN : Call(RunsResume(id, now, f))
RunsUpdateCall ==
    \E id \in CallerRunIds, data \in RunUpdateInputs, now \in Nows :
        Call(RunsUpdate(id, data, now))

StepsCreateCall ==
    \E data \in StepCreateInputs, now \in Nows, f \in BOOLEAN :
        Call(StepsCreate(<<120>>, data, now, f))
StepsGetCall == \E stepId \in StepIds : Call(StepsGet(<<120>>, stepId))
StepsUpdateCall ==
    \E stepId \in StepIds, data \in StepUpdateInputs, now \in Nows :
        Call(StepsUpdate(<<120>>, stepId, data, now))

HooksCreateCall ==
    \E runId \in UnknownRunIds, data \in HookCreateInputs, now \in Nows, f \in BOOLEAN :
        Call(HooksCreate(runId, data, now, f))
HooksGetCall == \E hookId \in HookIds : Call(HooksGet(hookId))
HooksGetByTokenCall == \E token \in Tokens, f \in BOOLEAN : Call(HooksGetByToken(token, f))
HooksDisposeCall == \E hookId \in HookIds : Call(HooksDispose(hookId))

\* every call of the run, step and hook stores
Next ==
    \/ RunsCreateCall
    \/ RunsGetCall
    \/ RunsCancelCall
    \/ RunsPauseCall
    \/ RunsResumeCall
    \/ RunsUpdateCall
    \/ StepsCreateCall
    \/ StepsGetCall
    \/ StepsUpdateCall
    \/ HooksCreateCall
    \/ HooksGetCall
    \/ HooksGetByTokenCall
    \/ HooksDisposeCall

Spec == Init /\ [][Next]_vars

\* the run store
RunsNext ==
    \/ RunsCreateCall
    \/ RunsGetCall
    \/ RunsCancelCall
    \/ RunsPauseCall
    \/ RunsResumeCall
    \/ RunsUpdateCall

SpecRuns == Init /\ [][RunsNext]_vars

\* the hook store
HooksNext ==
    \/ HooksCreateCall
    \/ HooksGetCall
    \/ HooksGetByTokenCall
    \/ HooksDisposeCall

SpecHooks == Init /\ [][HooksNext]_vars

\* create and get of the run, step and hook stores
CreateGetNext ==
    \/ RunsCreateCall
    \/ RunsGetCall
    \/ StepsCreateCall
    \/ StepsGetCall
    \/ HooksCreateCall
    \/ HooksGetCall

SpecCreateGet == Init /\ [][CreateGetNext]_vars

\* the writes of the step store and the hook store
StepsHooksNext ==
    \/ StepsCreateCall
    \/ StepsUpdateCall
    \/ HooksCreateCall
    \/ HooksDisposeCall

SpecStepsHooks == Init /\ [][StepsHooksNext]_vars

\* the writes of the run store and the step store
RunsStepsNext ==
    \/ RunsCreateCall
    \/ RunsCancelCall
    \/ RunsPauseCall
    \/ RunsResumeCall
    \/ RunsUpdateCall
    \/ StepsCreateCall
    \/ StepsUpdateCall

SpecRunsSteps == Init /\ [][RunsStepsNext]_vars

(***************************************************************************)
(* Concurrent callers: an update is a GetCommand and, later, an            *)
(* UpdateCommand; the calls of other callers may come between the two.     *)
(***************************************************************************)
\* a caller starts an update: one more call
Start(A) ==
    /\ calls < MaxCalls
    /\ A
    /\ calls' = calls + 1
    /\ UNCHANGED <<pg, done, closure>>

\* a caller finishes the update it started
Finish(A) ==
    /\ A
    /\ UNCHANGED <<pg, calls, done, closure>>

RunsUpdateReadCall ==
    \E p \in Callers, id \in CallerRunIds, data \in RunUpdateInputs :
        Start(RunsUpdateRead(p, id, data))
RunsUpdateWriteCall == \E p \in Callers, now \in Nows : Finish(RunsUpdateWrite(p, now))

StepsUpdateReadCall ==
    \E p \in Callers, stepId \in StepIds, data \in StepUpdateInputs :
        Start(StepsUpdateRead(p, <<120>>, stepId, data))
StepsUpdateWriteCall == \E p \in Callers, now \in Nows : Finish(StepsUpdateWrite(p, now))

\* the run store, with updates that overlap
RunsConcurrentNext ==
    \/ RunsCreateCall
    \/ RunsCancelCall
    \/ RunsPauseCall
    \/ RunsResumeCall
    \/ RunsUpdateReadCall
    \/ RunsUpdateWriteCall

SpecRunsConcurrent == Init /\ [][RunsConcurrentNext]_vars

\* updates of runs and of steps that overlap
UpdatesConcurrentNext ==
    \/ RunsCreateCall
    \/ StepsCreateCall
    \/ RunsUpdateReadCall
    \/ RunsUpdateWriteCall
    \/ StepsUpdateReadCall
    \/ StepsUpdateWriteCall

SpecUpdatesConcurrent == Init /\ [][UpdatesConcurrentNext]_vars

(***************************************************************************)
(* Listing: the four stores fill the partitions of the runs, then a client *)
(* lists them; nothing is written while a client pages.                    *)
(***************************************************************************)
\* page sizes the clients ask for
Limits == {1, 2}

\* a write of the listing specification: no client is paging
Write(A) ==
    /\ ~pg.active
    /\ A
    /\ UNCHANGED <<pg, calls, reads, done, closure>>

ListRunsCreate ==
    /\ ulidRuns < MaxRuns
    /\ Write(RunsCreate([workflowName |-> Str("demo"), input |-> Str("in"),
                         deploymentId |-> Str("d1")], clock, FALSE))

ListStepsCreate ==
    \E runId \in CallerRunIds, data \in StepCreateInputs :
        /\ "stepId" \notin DOMAIN data => ulidSteps < MaxSteps
        /\ Write(StepsCreate(runId, data, clock, FALSE))

ListHooksCreate ==
    \E runId \in CallerRunIds :
        Write(HooksCreate(runId, [hookId |-> <<104>>, token |-> <<116>>], clock, FALSE))

ListEventsCreate ==
    \E runId \in CallerRunIds, data \in EventCreateInputs :
        /\ ulidEvents < MaxEvents
        /\ Write(EventsCreate(runId, data, clock, FALSE))

\* one call of events.list, without a cursor
EventsListCall ==
    \E runId \in CallerRunIds, limit \in Limits, sortOrder \in {"asc", "desc"} :
        /\ ~pg.active
        /\ EventsList(runId, limit, sortOrder, Undefined)
        /\ UNCHANGED <<pg, calls, reads, done, closure>>

\* a client asks steps.list for the first page
StepsFirstPage ==
    \E runId \in CallerRunIds, limit \in Limits :
        /\ ~pg.active
        /\ StepsList(runId, limit, Undefined)
        /\ pg' = [active |-> TRUE, op |-> "steps.list", runId |-> runId,
                  limit |-> limit, pages |-> <<last'.value>>]
        /\ UNCHANGED <<calls, reads, done, closure>>

\* the client asks for the next page, with the cursor of the page before,
\* while that page said hasMore
StepsNextPage ==
    /\ pg.active
    /\ pg.op = "steps.list"
    /\ pg.pages[Len(pg.pages)].hasMore
    /\ Len(pg.pages) < MaxPages
    /\ StepsList(pg.runId, pg.limit, pg.pages[Len(pg.pages)].cursor)
    /\ pg' = [pg EXCEPT !.pages = Append(@, last'.value)]
    /\ UNCHANGED <<calls, reads, done, closure>>

ListNext ==
    \/ ListRunsCreate
    \/ ListStepsCreate
    \/ ListHooksCreate
    \/ ListEventsCreate
    \/ EventsListCall
    \/ StepsFirstPage
    \/ StepsNextPage

SpecList == Init /\ [][ListNext]_vars

(***************************************************************************)
(* Listing runs: runs are created and cancelled, then a client pages       *)
(* through runs.list.                                                      *)
(***************************************************************************)
WorkflowNames == {Str("demo"), Str("other")}

ListedRunsCreate ==
    \E workflowName \in WorkflowNames, now \in Nows :
        /\ ulidRuns < MaxListedRuns
        /\ Write(RunsCreate([workflowName |-> workflowName, input |-> Str("in"),
                             deploymentId |-> Str("d1")], now, FALSE))

ListedRunsCancel == \E id \in GeneratedRunIds : Write(RunsCancel(id, clock))

\* a client asks runs.list for the first page
RunsFirstPage ==
    \E workflowName \in WorkflowNames \cup {Undefined},
       status \in {Str("pending"), Undefined},
       limit \in Limits :
        /\ ~pg.active
        /\ RunsList(workflowName, status, limit, Undefined)
        /\ pg' = [active |-> TRUE, op |-> "runs.list", workflowName |-> workflowName,
                  status |-> status, limit |-> limit, pages |-> <<last'.value>>]
        /\ UNCHANGED <<calls, reads, done, closure>>

\* the client asks for the next page, with the cursor of the page before,
\* while that page said hasMore
RunsNextPage ==
    /\ pg.active
    /\ pg.op = "runs.list"
    /\ pg.pages[Len(pg.pages)].hasMore
    /\ Len(pg.pages) < MaxPages
    /\ RunsList(pg.workflowName, pg.status, pg.limit, pg.pages[Len(pg.pages)].cursor)
    /\ pg' = [pg EXCEPT !.pages = Append(@, last'.value)]
    /\ UNCHANGED <<calls, reads, done, closure>>

RunsListNext ==
    \/ ListedRunsCreate
    \/ ListedRunsCancel
    \/ RunsFirstPage
    \/ RunsNextPage

SpecRunsList == Init /\ [][RunsListNext]_vars

(***************************************************************************)
(* Listing events by correlation id: events are created, then a client     *)
(* pages through listByCorrelationId.                                      *)
(***************************************************************************)
\* correlation ids ("c", "d")
CorrelationIds == {<<99>>, <<100>>}

CorrelatedEventsCreate ==
    \E correlationId \in CorrelationIds, now \in Nows :
        /\ ulidEvents < MaxListedEvents
        /\ Write(EventsCreate(<<120>>,
                              [eventType |-> Str("step_started"),
                               eventData |-> Str("payload"),
                               correlationId |-> Str(correlationId)],
                              now, FALSE))

\* a client asks listByCorrelationId for the first page
CorrelationFirstPage ==
    \E correlationId \in CorrelationIds, limit \in Limits, sortOrder \in {"asc", "desc"} :
        /\ ~pg.active
        /\ EventsListByCorrelationId(correlationId, limit, sortOrder, Undefined)
        /\ pg' = [active |-> TRUE, op |-> "events.listByCorrelationId",
                  correlationId |-> correlationId, limit |-> limit,
                  sortOrder |-> sortOrder, pages |-> <<last'.value>>]
        /\ UNCHANGED <<calls, reads, done, closure>>

\* the client asks for the next page, with the cursor of the page before,
\* while that page said hasMore
CorrelationNextPage ==
    /\ pg.active
    /\ pg.op = "events.listByCorrelationId"
    /\ pg.pages[Len(pg.pages)].hasMore
    /\ Len(pg.pages) < MaxPages
    /\ EventsListByCorrelationId(pg.correlationId, pg.limit, pg.sortOrder,
                                 pg.pages[Len(pg.pages)].cursor)
    /\ pg' = [pg EXCEPT !.pages = Append(@, last'.value)]
    /\ UNCHANGED <<calls, reads, done, closure>>

CorrelationNext ==
    \/ CorrelatedEventsCreate
    \/ CorrelationFirstPage
    \/ CorrelationNextPage

SpecCorrelation == Init /\ [][CorrelationNext]_vars

(***************************************************************************)
(* Listing hooks: the stores fill the partitions of the runs, then a       *)
(* client pages through hooks.list.                                        *)
(***************************************************************************)
\* the hooks the callers register: "h" with token "t", "i" with token "u"
ListedHooks == {[hookId |-> <<104>>, token |-> <<116>>],
                [hookId |-> <<105>>, token |-> <<117>>]}

ListedHooksCreate ==
    \E runId \in CallerRunIds, data \in ListedHooks :
        Write(HooksCreate(runId, data, clock, FALSE))

\* steps with the caller's ids
ListedStepsCreate ==
    \E runId \in CallerRunIds, id \in StepIds :
        Write(StepsCreate(runId, [stepName |-> Str("work"), input |-> Str("in"),
                                  stepId |-> Str(id)], clock, FALSE))

ListedEventsCreate ==
    \E runId \in CallerRunIds :
        /\ ulidEvents < MaxEvents
        /\ Write(EventsCreate(runId, [eventType |-> Str("step_started"),
                                      eventData |-> Str("payload")], clock, FALSE))

\* a client asks hooks.list for the first page: of a run, or of all hooks
HooksFirstPage ==
    \E runId \in {Str(id) : id \in CallerRunIds} \cup {Undefined}, limit \in Limits :
        /\ ~pg.active
        /\ HooksList(runId, limit, Undefined)
        /\ pg' = [active |-> TRUE, op |-> "hooks.list", runId |-> runId,
                  limit |-> limit, pages |-> <<last'.value>>]
        /\ UNCHANGED <<calls, reads, done, closure>>

\* the client asks for the next page, with the cursor of the page before,
\* while that page said hasMore
HooksNextPage ==
    /\ pg.active
    /\ pg.op = "hooks.list"
    /\ pg.pages[Len(pg.pages)].hasMore
    /\ Len(pg.pages) < MaxPages
    /\ HooksList(pg.runId, pg.limit, pg.pages[Len(pg.pages)].cursor)
    /\ pg' = [pg EXCEPT !.pages = Append(@, last'.value)]
    /\ UNCHANGED <<calls, reads, done, closure>>

HooksListNext ==
    \/ ListRunsCreate
    \/ ListedStepsCreate
    \/ ListedHooksCreate
    \/ ListedEventsCreate
    \/ HooksFirstPage
    \/ HooksNextPage

SpecHooksList == Init /\ [][HooksListNext]_vars

(***************************************************************************)
(* The event log among the other stores: events are created under run "x", *)
(* and the other stores write under the same run, with ids their callers   *)
(* choose, the id of an event among them.                                  *)
(***************************************************************************)
\* ids a caller chooses for a step or a hook: "a", and the first event's id
ChosenIds == {<<97>>, ULID_PREFIX_EVT \o ulid(1)}

LogEventsCreate ==
    Call(EventsCreate(<<120>>, [eventType |-> Str("step_started"),
                                eventData |-> Str("payload")], clock, FALSE))

LogStepsCreate ==
    \E id \in ChosenIds :
        Call(StepsCreate(<<120>>, [stepName |-> Str("work"), input |-> Str("in"),
                                   stepId |-> Str(id)], clock, FALSE))

LogStepsUpdate ==
    \E id \in ChosenIds : Call(StepsUpdate(<<120>>, id, [status |-> Str("running")], clock))

LogHooksCreate ==
    \E id \in ChosenIds :
        Call(HooksCreate(<<120>>, [hookId |-> id, token |-> <<116>>], clock, FALSE))

LogHooksDispose == \E id \in ChosenIds : Call(HooksDispose(id))

LogRunsWrite ==
    \/ Call(RunsCancel(<<120>>, clock))
    \/ Call(RunsPause(<<120>>, clock))
    \/ Call(RunsResume(<<120>>, clock, FALSE))
    \/ Call(RunsUpdate(<<120>>, [status |-> Str("completed")], clock))

EventLogNext ==
    \/ LogEventsCreate
    \/ LogStepsCreate
    \/ LogStepsUpdate
    \/ LogHooksCreate
    \/ LogHooksDispose
    \/ LogRunsWrite

SpecEventLog == Init /\ [][EventLogNext]_vars

(***************************************************************************)
(* once: a function is wrapped, and the wrapper is called again and again. *)
(***************************************************************************)
\* what an invocation of fn may return
FnResults == {Undefined, Null, Num(0), Num(7)}

\* the functions wrapped: what each of their invocations returns
Fns == [1..MaxOnceCalls -> FnResults]

InitOnce ==
    /\ table = <<>>
    /\ clock = 1
    /\ ulidRuns = 0
    /\ ulidSteps = 0
    /\ ulidEvents = 0
    /\ last = NoCall
    /\ pg = NoPaging
    /\ calls = 0
    /\ reads = [p \in Callers |-> Idle]
    /\ done = [p \in Callers |-> NoCall]
    /\ closure \in {once(fn) : fn \in Fns}

OnceNext == Memoized

SpecOnce == InitOnce /\ [][OnceNext]_vars

(***************************************************************************)
(* Callers that each make one call, at the same time: a call's backend     *)
(* commands are its steps, and done keeps what the call returned or threw. *)
(***************************************************************************)
\* caller p begins its call; a call that throws before it has anything in
\* flight is over at once
Begin(p, A) ==
    /\ done[p] = NoCall
    /\ A
    /\ done' = IF reads'[p] = Idle THEN [done EXCEPT ![p] = last'] ELSE done
    /\ UNCHANGED <<pg, calls, closure>>

\* caller p's call sends its last command and returns or throws
End(p, A) ==
    /\ A
    /\ done' = [done EXCEPT ![p] = last']
    /\ UNCHANGED <<pg, calls, closure>>

RacingStepsCreateBuild ==
    \E p \in Callers, id \in StepIds, now \in Nows :
        Begin(p, StepsCreateBuild(p, <<120>>,
                                  [stepName |-> Str("work"), input |-> Str("in"),
                                   stepId |-> Str(id)], now))
RacingStepsCreatePut == \E p \in Callers, f \in BOOLEAN : End(p, StepsCreatePut(p, f))

RacingHooksCreateBuild ==
    \E p \in Callers, data \in HookCreateInputs, now \in Nows :
        Begin(p, HooksCreateBuild(p, <<120>>, data, now))
RacingHooksCreatePut == \E p \in Callers, f \in BOOLEAN : End(p, HooksCreatePut(p, f))

RacingCreatesNext ==
    \/ RacingStepsCreateBuild
    \/ RacingStepsCreatePut
    \/ RacingHooksCreateBuild
    \/ RacingHooksCreatePut

SpecRacingCreates == Init /\ [][RacingCreatesNext]_vars

\* the tables that hold one hook for every hook id, each created by
\* hooks.create under run "x" with one of the tokens
HookTables ==
    {[k \in {HookKey(<<120>>, h) : h \in HookIds} |->
         LET h == CHOOSE h \in HookIds : HookKey(<<120>>, h) = k
         IN HookItem(<<120>>, [hookId |-> h, token |-> tokens[h]], 1)]
     : tokens \in [HookIds -> Tokens]}

InitHooksStored ==
    /\ table \in HookTables
    /\ clock = 1
    /\ ulidRuns = 0
    /\ ulidSteps = 0
    /\ ulidEvents = 0
    /\ last = NoCall
    /\ pg = NoPaging
    /\ calls = 0
    /\ reads = [p \in Callers |-> Idle]
    /\ done = [p \in Callers |-> NoCall]
    /\ closure = once(<<>>)

RacingHooksDisposeLookup ==
    \E p \in Callers, hookId \in HookIds : Begin(p, HooksDisposeLookup(p, hookId))
RacingHooksDisposeDelete == \E p \in Callers : End(p, HooksDisposeDelete(p))

RacingDisposesNext ==
    \/ RacingHooksDisposeLookup
    \/ RacingHooksDisposeDelete

SpecRacingDisposes == InitHooksStored /\ [][RacingDisposesNext]_vars

\* partial updates of runs.update that name different recognized fields
RacingRunUpdateInputs ==
    RunUpdateInputs
    \cup {[deploymentId |-> Str("d2")], [output |-> Str("out"), errorCode |-> Str("E")]}

RacingRunsUpdateRead ==
    \E p \in Callers, id \in CallerRunIds, data \in RacingRunUpdateInputs :
        Begin(p, RunsUpdateRead(p, id, data))
RacingRunsUpdateWrite == \E p \in Callers, now \in Nows : End(p, RunsUpdateWrite(p, now))

\* the runs the updates are made on
RacingRunsCreate ==
    /\ ulidRuns < MaxRuns
    /\ \E data \in RunCreateInputs : Call(RunsCreate(data, clock, FALSE))

RacingUpdatesNext ==
    \/ RacingRunsCreate
    \/ RacingRunsUpdateRead
    \/ RacingRunsUpdateWrite

SpecRacingUpdates == Init /\ [][RacingUpdatesNext]_vars

(***************************************************************************)
(* Properties.                                                             *)
(***************************************************************************)
\* the step of a behaviour is a call of op
IsCall(op) == calls' = calls + 1 /\ last'.op = op

\* whether the backend failed during the call
BackendFailed(call) == call.args[Len(call.args)]

\* C1: a successful create of a run, step or hook followed at once by get on the
\* identifier it returned yields an entity equal to the one create returned
\* (same attributes, timestamps as instants, null fields omitted).
C1_CreateThenGet ==
    [][/\ (/\ last.op = "runs.create" /\ last.status = 200
           /\ IsCall("runs.get") /\ last'.args = <<last.value.runId[2]>>)
          => (last'.status = 200 /\ last'.value = last.value)
       /\ (/\ last.op = "steps.create" /\ last.status = 200
           /\ IsCall("steps.get")
           /\ last'.args = <<last.value.runId[2], last.value.stepId[2]>>)
          => (last'.status = 200 /\ last'.value = last.value)
       /\ (/\ last.op = "hooks.create" /\ last.status = 200
           /\ IsCall("hooks.get") /\ last'.args = <<last.value.hookId[2]>>)
          => (last'.status = 200 /\ last'.value = last.value)]_vars

\* the key a steps.create or hooks.create call with a caller-supplied id writes
CreateKey(call) ==
    IF call.op = "steps.create"
    THEN StepKey(call.args[1], call.args[2].stepId[2])
    ELSE HookKey(call.args[1], call.args[2].hookId)

\* C2: steps.create or hooks.create with a (runId, id) that is already stored
\* fails with Conflict (409) and leaves the table, and so the first record,
\* as it was.
C2_SecondCreateConflicts ==
    [][(/\ \/ IsCall("steps.create") /\ "stepId" \in DOMAIN last'.args[2]
           \/ IsCall("hooks.create")
        /\ CreateKey(last') \in DOMAIN table)
       => (last'.status = 409 /\ table' = table)]_vars

\* a hooks.create the backend did not fail was refused with 409, at a time after
\* the stored record was written
C2_Witness ==
    /\ last.op = "hooks.create"
    /\ ~BackendFailed(last)
    /\ last.status = 409
    /\ CreateKey(last) \in DOMAIN table
    /\ table[CreateKey(last)].createdAt[2] < clock

\* the keys of the stored hooks
HookKeys == {k \in DOMAIN table : Attr(table[k], "entityType") = Str("Hook")}

\* C3: no two stored hook records have the same hookId.
C3_HookIdUnique ==
    \A k1 \in HookKeys, k2 \in HookKeys :
        table[k1].hookId = table[k2].hookId => k1 = k2

\* C4: resume succeeds, setting status running, only on a run stored as paused;
\* on a run stored with any other status it fails with 404 and the table is
\* unchanged.
C4_ResumeOnlyFromPaused ==
    [][IsCall("runs.resume") =>
        LET Key == RunKey(last'.args[1])
        IN /\ last'.status = 200 =>
                /\ Key \in DOMAIN table
                /\ Attr(table[Key], "status") = Str("paused")
                /\ table'[Key].status = Str("running")
           /\ (Key \in DOMAIN table /\ Attr(table[Key], "status") # Str("paused")) =>
                (last'.status = 404 /\ table' = table)]_vars

\* resume of a stored completed run, with the backend working, failed with 404
C4_Witness ==
    /\ last.op = "runs.resume"
    /\ ~BackendFailed(last)
    /\ last.status = 404
    /\ RunKey(last.args[1]) \in DOMAIN table
    /\ table[RunKey(last.args[1])].status = Str("completed")

\* C5: cancel and pause of a run id with no stored run fail with NotFound and
\* store nothing under that run's key.
C5_CancelPauseMissingRun ==
    [][((IsCall("runs.cancel") \/ IsCall("runs.pause"))
        /\ RunKey(last'.args[1]) \notin DOMAIN table)
       => (last'.status = 404 /\ RunKey(last'.args[1]) \notin DOMAIN table')]_vars

\* the keys of the stored run metadata and step records
RunStepKeys ==
    {k \in DOMAIN table : k[2] = runMetaSK \/ Attr(table[k], "entityType") = Str("Step")}

\* C6: update with status running leaves startedAt set, and a startedAt once
\* stored is never changed by a later call.
C6_StartedAtSetOnce ==
    [][/\ \A k \in RunStepKeys :
            Truthy(Attr(table[k], "startedAt")) =>
                (k \in DOMAIN table' /\ Attr(table'[k], "startedAt") = table[k].startedAt)
       /\ (/\ IsCall("runs.update")
           /\ last'.status = 200
           /\ Attr(last'.args[2], "status") = Str("running"))
          => LET k == RunKey(last'.args[1])
             IN /\ Truthy(Attr(table'[k], "startedAt"))
                /\ ~Truthy(Attr(table[k], "startedAt")) => table'[k].startedAt = Num(clock')
       /\ (/\ IsCall("steps.update")
           /\ last'.status = 200
           /\ Attr(last'.args[3], "status") = Str("running"))
          => LET k == StepKey(last'.args[1], last'.args[2])
             IN /\ Truthy(Attr(table'[k], "startedAt"))
                /\ ~Truthy(Attr(table[k], "startedAt")) => table'[k].startedAt = Num(clock')]_vars

\* a run was updated to running at a time after its startedAt was written
C6_Witness ==
    /\ last.op = "runs.update"
    /\ last.status = 200
    /\ Attr(last.args[2], "status") = Str("running")
    /\ last.value.startedAt[2] < last.value.updatedAt[2]

\* C7: when the backend fails during getByToken, the caller gets the backend's
\* failure and not NotFound.
C7_GetByTokenBackendFailure ==
    (last.op = "hooks.getByToken" /\ BackendFailed(last))
        => (last.status # 404 /\ last.status = 500)

\* C9: after a successful hooks.create, get of its id and getByToken of its
\* token return that hook; after a successful dispose, get of its id and
\* getByToken of its token fail with NotFound (the backend working throughout).
C9_HookLifecycle ==
    [][/\ (last.op = "hooks.create" /\ last.status = 200) =>
            /\ (IsCall("hooks.get") /\ last'.args = <<last.value.hookId[2]>>)
                  => (last'.status = 200 /\ last'.value = last.value)
            /\ (IsCall("hooks.getByToken")
                /\ last'.args = <<last.value.token[2], FALSE>>)
                  => (last'.status = 200 /\ last'.value = last.value)
       /\ (last.op = "hooks.dispose" /\ last.status = 200) =>
            /\ (IsCall("hooks.get") /\ last'.args = <<last.value.hookId[2]>>)
                  => last'.status = 404
            /\ (IsCall("hooks.getByToken")
                /\ last'.args = <<last.value.token[2], FALSE>>)
                  => last'.status = 404]_vars

\* the ids (attribute key) of the entities of a page
IdsOf(data, key) == [i \in 1..Len(data) |-> data[i][key][2]]

RECURSIVE Concat(_)
\* the sequences of a sequence, joined
Concat(ss) == IF ss = <<>> THEN <<>> ELSE Head(ss) \o Concat(Tail(ss))

\* the ids of the steps stored under a run, newest (greatest id) first
StepsOf(runId) ==
    SortStrings({table[k].stepId[2] :
                    k \in {k \in DOMAIN table :
                              /\ k[1] = runPK(runId)
                              /\ Attr(table[k], "entityType") = Str("Step")}},
                FALSE)

\* C8: paging through steps.list with limit k over a run of N > k steps: the
\* first page has k steps, hasMore and a cursor; the pages together are the
\* run's steps newest first, none repeated and none skipped; the page holding
\* the last step has hasMore = false and that step's id as cursor.
C8_StepsPaging ==
    (pg.active /\ pg.op = "steps.list" /\ Len(StepsOf(pg.runId)) > pg.limit) =>
        LET steps == StepsOf(pg.runId)
            ids == [i \in 1..Len(pg.pages) |-> IdsOf(pg.pages[i].data, "stepId")]
            all == Concat(ids)
        IN /\ Len(ids[1]) = pg.limit
           /\ pg.pages[1].hasMore
           /\ pg.pages[1].cursor # Null
           /\ Len(all) <= Len(steps)
           /\ all = SubSeq(steps, 1, Len(all))
           /\ \A i \in 1..Len(pg.pages) :
                 (ids[i] # <<>> /\ ids[i][Len(ids[i])] = steps[Len(steps)]) =>
                     /\ ~pg.pages[i].hasMore
                     /\ pg.pages[i].cursor = Str(steps[Len(steps)])

\* the ids of the events stored under a run, in the order they were created
EventsOf(runId) ==
    LET made == [n \in 1..ulidEvents |-> ULID_PREFIX_EVT \o ulid(n)]
    IN SelectSeq(made, LAMBDA id : EventKey(runId, id) \in DOMAIN table)

Reverse(s) == [i \in 1..Len(s) |-> s[Len(s) + 1 - i]]

\* C10: events.list without a cursor returns the min(limit, N) oldest events in
\* creation order when asc, and the min(limit, N) newest in reverse creation
\* order when desc.
C10_EventsListOrder ==
    (last.op = "events.list" /\ last.args[4] = Undefined) =>
        LET events == EventsOf(last.args[1])
            n == Min(last.args[2], Len(events))
        IN IdsOf(last.value.data, "eventId") =
               IF last.args[3] = "asc"
               THEN SubSeq(events, 1, n)
               ELSE SubSeq(Reverse(events), 1, n)

\* C12: runs.update with a partial holding none of the recognized fields
\* returns the current record and leaves the stored run record as it was.
C12_UpdateWithoutFields ==
    [][(/\ IsCall("runs.update")
        /\ last'.status = 200
        /\ DOMAIN last'.args[2] \cap RunUpdatableKeys = {})
       => LET k == RunKey(last'.args[1])
          IN /\ table'[k] = table[k]
             /\ last'.value = compact(table[k])]_vars

\* C13: no two stored hook records have the same token.
C13_TokenUnique ==
    \A k1 \in HookKeys, k2 \in HookKeys :
        table[k1].token = table[k2].token => k1 = k2

\* C14: when the backend fails during runs.resume or during a create, the
\* caller gets the backend's failure: resume does not report NotFound (404)
\* and create does not report Conflict (409).
C14_BackendFailureReported ==
    (/\ last.op \in {"runs.resume", "runs.create", "steps.create",
                     "hooks.create", "events.create"}
     /\ BackendFailed(last))
        => (last.status \notin {404, 409} /\ last.status = 500)

\* the keys of the stored runs that runs.create made
CreatedRunKeys ==
    {k \in DOMAIN table : k[2] = runMetaSK /\ Attr(table[k], "entityType") = Str("Run")}

\* C16: a run made by runs.create whose status is running has startedAt set.
C16_RunningHasStartedAt ==
    \A k \in CreatedRunKeys :
        Attr(table[k], "status") = Str("running") => Truthy(Attr(table[k], "startedAt"))

\* C15: with updates that overlap (each a read, then a separate write), a
\* startedAt once stored on a run or a step is not changed by any later write.
C15_StartedAtWrittenOnce ==
    [][\A k \in RunStepKeys :
          Truthy(Attr(table[k], "startedAt")) =>
              Attr(table'[k], "startedAt") = table[k].startedAt]_vars

\* the keys of the stored run metadata records
RunKeys == {k \in DOMAIN table : k[2] = runMetaSK}

\* C17: a stored run whose status is completed, failed or cancelled has
\* completedAt set, in every sequence and interleaving of run store calls.
C17_FinishedHasCompletedAt ==
    \A k \in RunKeys :
        Attr(table[k], "status") \in {Str("completed"), Str("failed"), Str("cancelled")}
            => Truthy(Attr(table[k], "completedAt"))

\* an update stored status completed on a run while another caller's update of
\* the same run was between its read and its write
C17_Witness ==
    /\ last.op = "runs.update"
    /\ last.status = 200
    /\ table[RunKey(last.args[1])].status = Str("completed")
    /\ Truthy(Attr(table[RunKey(last.args[1])], "completedAt"))
    /\ \E q \in Callers : reads[q].op = "runs.update" /\ reads[q].id = last.args[1]

\* the stored runs that runs.list is asked for: those with the workflowName,
\* else those with the status, else all
MatchingRuns(workflowName, status) ==
    {table[k] : k \in {k \in CreatedRunKeys :
                          IF Given(workflowName) THEN table[k].workflowName = workflowName
                          ELSE IF Given(status) THEN table[k].status = status
                          ELSE TRUE}}

\* the runs of a page are in newest-first order of createdAt
NewestFirst(data) ==
    \A i \in 1..(Len(data) - 1) : data[i].createdAt[2] >= data[i + 1].createdAt[2]

\* C11: runs.list with a workflowName, no cursor and a limit not below the
\* number N of stored runs with that workflowName returns exactly those N runs,
\* newest first, with hasMore = false and as cursor the creation instant of
\* the last returned run (null when N = 0).
C11_RunsListByName ==
    (/\ last.op = "runs.list"
     /\ Given(last.args[1])
     /\ last.args[4] = Undefined
     /\ last.args[3] >= Cardinality(MatchingRuns(last.args[1], last.args[2])))
        => LET runs == MatchingRuns(last.args[1], last.args[2])
               data == last.value.data
           IN /\ Len(data) = Cardinality(runs)
              /\ {data[i] : i \in 1..Len(data)} = {compact(r) : r \in runs}
              /\ NewestFirst(data)
              /\ ~last.value.hasMore
              /\ last.value.cursor = IF runs = {}
                                     THEN Null
                                     ELSE Num(data[Len(data)].createdAt[2])

\* runs.list by workflowName returned two runs created at different instants,
\* while a run of another workflow is stored
C11_Witness ==
    /\ last.op = "runs.list"
    /\ Given(last.args[1])
    /\ last.args[3] = 2
    /\ Len(last.value.data) = 2
    /\ last.value.data[1].createdAt[2] > last.value.data[2].createdAt[2]
    /\ Cardinality(CreatedRunKeys) = 3

\* C20: paging through runs.list with limit k, following each cursor while
\* nothing is written, returns every matching run exactly once, newest first:
\* the pages so far hold matching runs, none twice, in newest-first order, and
\* when a page says hasMore = false every matching run has been returned.
C20_RunsPaging ==
    (pg.active /\ pg.op = "runs.list") =>
        LET runs == MatchingRuns(pg.workflowName, pg.status)
            all == Concat([i \in 1..Len(pg.pages) |-> pg.pages[i].data])
        IN /\ \A i \in 1..Len(all) : all[i] \in {compact(r) : r \in runs}
           /\ \A i, j \in 1..Len(all) : i # j => all[i] # all[j]
           /\ NewestFirst(all)
           /\ ~pg.pages[Len(pg.pages)].hasMore =>
                 {all[i] : i \in 1..Len(all)} = {compact(r) : r \in runs}

\* the stored events that carry a correlation id
CorrelatedEvents(correlationId) ==
    {table[k] : k \in {k \in DOMAIN table :
                          /\ Attr(table[k], "entityType") = Str("Event")
                          /\ table[k].correlationId = Str(correlationId)}}

\* C19: paging through listByCorrelationId with limit k in either order,
\* following each cursor, returns every event of the correlation id exactly
\* once in creation-instant order: the pages so far hold events of that id,
\* none twice, in the order asked for, and when a page says hasMore = false
\* every such event has been returned.
C19_CorrelationPaging ==
    (pg.active /\ pg.op = "events.listByCorrelationId") =>
        LET events == CorrelatedEvents(pg.correlationId)
            all == Concat([i \in 1..Len(pg.pages) |-> pg.pages[i].data])
        IN /\ \A i \in 1..Len(all) : all[i] \in {compact(e) : e \in events}
           /\ \A i, j \in 1..Len(all) : i # j => all[i] # all[j]
           /\ \A i \in 1..(Len(all) - 1) :
                 IF pg.sortOrder = "asc"
                 THEN all[i].createdAt[2] <= all[i + 1].createdAt[2]
                 ELSE all[i].createdAt[2] >= all[i + 1].createdAt[2]
           /\ ~pg.pages[Len(pg.pages)].hasMore =>
                 {all[i] : i \in 1..Len(all)} = {compact(e) : e \in events}

\* the ids of the hooks stored under a run
HooksOf(runId) ==
    {table[k].hookId[2] : k \in {k \in HookKeys : k[1] = runPK(runId)}}

\* C18: paging through hooks.list of a run, from no cursor and following each
\* cursor while hasMore is true, returns every hook of the run exactly once and
\* ends with hasMore = false: the pages so far hold hooks of the run, none
\* twice; a page that says hasMore gives a cursor to follow; and when a page
\* says hasMore = false every hook of the run has been returned.
C18_HooksPaging ==
    (pg.active /\ pg.op = "hooks.list" /\ Truthy(pg.runId)) =>
        LET hooks == HooksOf(pg.runId[2])
            all == Concat([i \in 1..Len(pg.pages) |-> IdsOf(pg.pages[i].data, "hookId")])
        IN /\ \A i \in 1..Len(all) : all[i] \in hooks
           /\ \A i, j \in 1..Len(all) : i # j => all[i] # all[j]
           /\ \A i \in 1..Len(pg.pages) :
                 pg.pages[i].hasMore => pg.pages[i].cursor # Null
           /\ ~pg.pages[Len(pg.pages)].hasMore =>
                 {all[i] : i \in 1..Len(all)} = hooks

\* the keys of the stored events
EventKeys == {k \in DOMAIN table : Attr(table[k], "entityType") = Str("Event")}

\* C21: a stored event is never changed or removed: every step of the four
\* stores, creates of steps and hooks with caller-chosen ids under the event's
\* run included, leaves every stored event record as it was.
C21_EventsImmutable ==
    [][\A k \in EventKeys : k \in DOMAIN table' /\ table'[k] = table[k]]_vars

\* a step with the id of a stored event was created and then updated under
\* the event's run
C21_Witness ==
    /\ last.op = "steps.update"
    /\ last.status = 200
    /\ EventKey(last.args[1], last.args[2]) \in EventKeys

\* C25: over any number of calls of the function once(fn) returned, fn is
\* invoked at most one time and every call returns what fn's first invocation
\* returned, also when that is undefined.
C25_OnceInvokesOnce ==
    /\ closure.invoked <= 1
    /\ last.op = "once" => last.value = closure.fn[1]

\* the key a finished steps.create or hooks.create call named
CreatedKey(call) ==
    IF call.op = "steps.create"
    THEN StepKey(call.args[1], call.args[2].stepId[2])
    ELSE HookKey(call.args[1], call.args[2].hookId)

\* C22: of the steps.create calls (or hooks.create calls) with the same
\* (runId, id) that ran at the same time, the backend working, exactly one
\* succeeded and the others failed with Conflict (409), and the stored record
\* is the one the successful call wrote and returned.
C22_OneCreateWins ==
    \A p, q \in Callers :
        (/\ p # q
         /\ done[p].op \in {"steps.create", "hooks.create"}
         /\ done[q].op = done[p].op
         /\ CreatedKey(done[p]) = CreatedKey(done[q])
         /\ ~BackendFailed(done[p])
         /\ ~BackendFailed(done[q]))
            => /\ {done[p].status, done[q].status} = {200, 409}
               /\ done[p].status = 200 =>
                     /\ CreatedKey(done[p]) \in DOMAIN table
                     /\ compact(table[CreatedKey(done[p])]) = done[p].value

\* two hooks.create calls with one (runId, hookId) and different tokens have
\* both finished; the call that built its item later won, the other was
\* refused after it
C22_Witness ==
    \E p, q \in Callers :
        /\ done[p].op = "hooks.create"
        /\ done[q].op = "hooks.create"
        /\ CreatedKey(done[p]) = CreatedKey(done[q])
        /\ done[p].args[2].token # done[q].args[2].token
        /\ done[p].status = 200
        /\ done[q].status = 409
        /\ ~BackendFailed(done[q])
        /\ last = done[q]
        /\ done[p].value.createdAt = Date(clock)
        /\ clock > 1

\* C23: of the hooks.dispose calls for one stored hook that ran at the same
\* time, each a lookup and then a delete, exactly one returned the deleted
\* hook and every other failed with NotFound (404).
C23_OneDisposeWins ==
    \A p, q \in Callers :
        (/\ p # q
         /\ done[p].op = "hooks.dispose"
         /\ done[q].op = "hooks.dispose"
         /\ done[p].args = done[q].args)
            => /\ {done[p].status, done[q].status} = {200, 404}
               /\ done[p].status = 200 =>
                     /\ done[p].value.hookId = Str(done[p].args[1])
                     /\ HookKey(<<120>>, done[p].args[1]) \notin DOMAIN table

\* both calls looked the hook up before either deleted it; the second delete
\* found nothing to return
C23_Witness ==
    \E p, q \in Callers :
        /\ done[p].op = "hooks.dispose"
        /\ done[q].op = "hooks.dispose"
        /\ done[p].args = done[q].args
        /\ done[p].status = 200
        /\ done[q].status = 404
        /\ last = done[q]
        /\ HookKey(<<120>>, <<105>>) \in DOMAIN table

\* the recognized fields a finished runs.update call was given
FieldsSet(call) == {k \in RunUpdatableKeys : Attr(call.args[2], k) # Undefined}

\* C24: when two runs.update calls on one run that ran at the same time were
\* given different recognized fields, and both have returned, the stored run
\* holds the value of every field either call was given: neither call has
\* reverted a field of the other.
C24_DisjointUpdatesBothTakeEffect ==
    \A p, q \in Callers :
        (/\ p # q
         /\ done[p].op = "runs.update"
         /\ done[q].op = "runs.update"
         /\ done[p].status = 200
         /\ done[q].status = 200
         /\ done[p].args[1] = done[q].args[1]
         /\ FieldsSet(done[p]) \cap FieldsSet(done[q]) = {})
            => /\ RunKey(done[p].args[1]) \in DOMAIN table
               /\ \A k \in FieldsSet(done[p]) :
                     Attr(table[RunKey(done[p].args[1])], k) = done[p].args[2][k]

\* one call has stored a status and the other an output and an errorCode;
\* the call that returned first returned the run without the other's fields
C24_Witness ==
    \E p, q \in Callers :
        /\ done[p].op = "runs.update"
        /\ done[q].op = "runs.update"
        /\ done[p].status = 200
        /\ done[q].status = 200
        /\ done[p].args[1] = done[q].args[1]
        /\ FieldsSet(done[p]) = {"status"}
        /\ FieldsSet(done[q]) = {"output", "errorCode"}
        /\ Attr(done[p].value, "output") = Undefined
        /\ last = done[q]

====
